---- MODULE Spec2Model ----
(***************************************************************************)
(* Model of the comparison matrix of neurolit-ai: the App component that   *)
(* owns the paper list and the comparison result, the ComparisonView that  *)
(* selects papers, issues comparison requests, derives the table and       *)
(* updates cells, and the EditableCell that stages a draft.                *)
(*                                                                         *)
(* Texts (criteria names, insights, drafts) are kept in the state as       *)
(* strings; their characters are given by the table Chars, because string  *)
(* values cannot be taken apart.  Paper ids (crypto.randomUUID()) are      *)
(* opaque and unique: the n-th analysed paper has id n.                    *)
(***************************************************************************)
EXTENDS Integers, Sequences, FiniteSets, TLC

\* ------------------------------------------------------------- bounds
MaxPapers == 2
MaxInFlight == 2
MaxEdits == 1
MaxSample == 4

\* ------------------------------------------------------------- values
Null == "null"
NoCell == <<>>
DefaultError == "Failed to generate comparison. Please check your connection and try again."
RegionError == "Region Not Supported"

\* The message of the error comparePapers rejects with ("" when it has none).
ErrMessages == {"", RegionError}

\* The draft texts a user types (e.target.value).
Texts == {"", "abcd"}

ViewState == {"ANALYZE", "COMPARE", "DISCOVER"}

VARIABLES
    view,               \* App: view
    papers,             \* App: papers, a sequence of paper ids, newest first
    comparisonResult,   \* App: comparisonResult; <<>> is null, <<M>> is the matrix M
    inst,               \* the ComparisonView instance that is mounted (0: none)
    selectedIds,        \* ComparisonView: selectedIds
    isComparing,        \* ComparisonView: isComparing
    error,              \* ComparisonView: error (Null or a message)
    requests,           \* comparePapers calls in flight, in the order issued: [inst, edited,
                        \* stale]; edited: a cell was committed while it was in flight;
                        \* stale: a request issued after it has resolved
    hostControlled,     \* whether the host of EditableCell stores what setIsEditing is given
    ordered,            \* whether the order of issue of the answers handled is recorded
    editing,            \* the cell <<paperId, idx>> whose isEditing is true, or NoCell
    value,              \* EditableCell: value of the cell being edited (Null when none is)
    edits,              \* the number of cell commits so far
    sample,             \* the text given to the text functions (TextSpec), as characters
    last                \* the handler that ran last, with what it called

vars == <<view, papers, comparisonResult, inst, selectedIds, isComparing, error,
          requests, hostControlled, ordered, editing, value, edits, sample, last>>

\* ------------------------------------------------------------- matrix
Point(c, ins) == [criteria |-> c, paperInsights |-> ins]

\* point.paperInsights?.[paper.id] || ""
Insight(point, paperId) ==
    IF paperId \in DOMAIN point.paperInsights THEN point.paperInsights[paperId] ELSE ""

\* { ...point.paperInsights, [paperId]: newValue }
SpreadInsight(ins, paperId, newValue) ==
    [k \in (DOMAIN ins) \cup {paperId} |-> IF k = paperId THEN newValue ELSE ins[k]]

\* updateCell without the spread of point.paperInsights
updateCellNoSpread(result, paperId, criteriaName, newValue) ==
    IF result = <<>> THEN result
    ELSE << [i \in 1..Len(result[1]) |->
               IF result[1][i].criteria = criteriaName
               THEN [result[1][i] EXCEPT !.paperInsights = (paperId :> newValue)]
               ELSE result[1][i]] >>

\* updateCell adding the dimension when none has the name
updateCellUpsert(result, paperId, criteriaName, newValue) ==
    IF result = <<>> THEN result
    ELSE IF \A i \in 1..Len(result[1]) : result[1][i].criteria # criteriaName
    THEN << Append(result[1], Point(criteriaName, (paperId :> newValue))) >>
    ELSE << [i \in 1..Len(result[1]) |->
               IF result[1][i].criteria = criteriaName
               THEN [result[1][i] EXCEPT
                        !.paperInsights = SpreadInsight(@, paperId, newValue)]
               ELSE result[1][i]] >>

\* updateCell putting the dimensions it updated first
updateCellMoveFirst(result, paperId, criteriaName, newValue) ==
    IF result = <<>> THEN result
    ELSE LET updated == [i \in 1..Len(result[1]) |->
                           IF result[1][i].criteria = criteriaName
                           THEN [result[1][i] EXCEPT
                                    !.paperInsights = SpreadInsight(@, paperId, newValue)]
                           ELSE result[1][i]]
         IN  << SelectSeq(updated, LAMBDA point : point.criteria = criteriaName)
                \o SelectSeq(updated, LAMBDA point : point.criteria # criteriaName) >>

updateCell(result, paperId, criteriaName, newValue) ==
    IF result = <<>> THEN result
    ELSE << [i \in 1..Len(result[1]) |->
               IF result[1][i].criteria = criteriaName
               THEN [result[1][i] EXCEPT
                        !.paperInsights = SpreadInsight(@, paperId, newValue)]
               ELSE result[1][i]] >>

\* The ids of every point, not only of the first
activeResultIdsAnyPoint(result) ==
    IF result # <<>> /\ Len(result[1]) > 0
    THEN UNION {DOMAIN result[1][i].paperInsights : i \in 1..Len(result[1])}
    ELSE {}

activeResultIds(result) ==
    IF result # <<>> /\ Len(result[1]) > 0
    THEN DOMAIN result[1][1].paperInsights
    ELSE {}

\* The papers in the order of their ids instead of the order of the list
filterPapersById(ps, result) ==
    LET ids == {ps[i] : i \in 1..Len(ps)} \cap activeResultIds(result)
        Rank(p) == Cardinality({q \in ids : q <= p})
    IN  [k \in 1..Cardinality(ids) |-> CHOOSE p \in ids : Rank(p) = k]

\* papers.filter(p => activeResultIds.includes(p.id)), before the sort
filterPapers(ps, result) ==
    SelectSeq(ps, LAMBDA p : p \in activeResultIds(result))

\* ------------------------------------------------------------- text
\* The characters of every string the model uses.
Chars ==
       "Study Design" :> <<"S", "t", "u", "d", "y", " ", "D", "e", "s", "i", "g", "n">> @@
       "Model/Architecture/Tools Used" :> <<"M", "o", "d", "e", "l", "/", "A", "r", "c", "h", "i", "t", "e", "c", "t", "u", "r", "e", "/", "T", "o", "o", "l", "s", " ", "U", "s", "e", "d">> @@
       "Key Findings" :> <<"K", "e", "y", " ", "F", "i", "n", "d", "i", "n", "g", "s">> @@
       "Network architecture" :> <<"N", "e", "t", "w", "o", "r", "k", " ", "a", "r", "c", "h", "i", "t", "e", "c", "t", "u", "r", "e">> @@
       "MODEL" :> <<"M", "O", "D", "E", "L">> @@
       "" :> <<>> @@
       "abc" :> <<"a", "b", "c">> @@
       "abcd" :> <<"a", "b", "c", "d">> @@
       "B" :> <<"B">> @@
       "b" :> <<"b">> @@
       "Tools, \"used\"" :> <<"T", "o", "o", "l", "s", ",", " ", "\"", "u", "s", "e", "d", "\"">> @@
       "He said \"hi\" - ok" :> <<"H", "e", " ", "s", "a", "i", "d", " ", "\"", "h", "i", "\"", " ", "-", " ", "o", "k">> @@
       "a" :> <<"a">>

UpperChars == <<"A", "B", "C", "D", "E", "F", "G", "H", "I", "J", "K", "L", "M", "N", "O", "P", "Q", "R", "S", "T", "U", "V", "W", "X", "Y", "Z">>
LowerChars == <<"a", "b", "c", "d", "e", "f", "g", "h", "i", "j", "k", "l", "m", "n", "o", "p", "q", "r", "s", "t", "u", "v", "w", "x", "y", "z">>

\* String.prototype.toLowerCase, on a sequence of characters
toLowerCase(cs) ==
    [i \in 1..Len(cs) |->
        IF \E k \in 1..Len(UpperChars) : UpperChars[k] = cs[i]
        THEN LowerChars[CHOOSE k \in 1..Len(UpperChars) : UpperChars[k] = cs[i]]
        ELSE cs[i]]

\* String.prototype.includes, on sequences of characters
includes(cs, needle) ==
    \E i \in 0..(Len(cs) - Len(needle)) : SubSeq(cs, i + 1, i + Len(needle)) = needle

\* The test without toLowerCase
IsModelCriteriaCaseSensitive(c) ==
    \/ includes(Chars[c.criteria], <<"m", "o", "d", "e", "l">>)
    \/ includes(Chars[c.criteria],
                <<"a", "r", "c", "h", "i", "t", "e", "c", "t", "u", "r", "e">>)

IsModelCriteria(c) ==
    \/ includes(toLowerCase(Chars[c.criteria]), <<"m", "o", "d", "e", "l">>)
    \/ includes(toLowerCase(Chars[c.criteria]),
                <<"a", "r", "c", "h", "i", "t", "e", "c", "t", "u", "r", "e">>)

\* comparisonResult.find(c => ...): the index of the point found, 0 for undefined
modelCriteria(result) ==
    IF result = <<>> \/ ~(\E i \in 1..Len(result[1]) : IsModelCriteria(result[1][i]))
    THEN 0
    ELSE CHOOSE i \in 1..Len(result[1]) :
            /\ IsModelCriteria(result[1][i])
            /\ \A j \in 1..(i - 1) : ~IsModelCriteria(result[1][j])

\* ------------------------------------------------------------- sort
\* The order in which localeCompare puts the characters of the texts: blank, then
\* punctuation, then letters. The keys compared are lower-cased, so that no two
\* characters differ in case only and the comparison is by the first difference.
Collation == <<" ", "-", ",", "\"", "*", "/">> \o LowerChars

Rank(c) == CHOOSE k \in 1..Len(Collation) : Collation[k] = c

\* String.prototype.localeCompare, on sequences of characters: -1, 0 or 1
RECURSIVE localeCompare(_, _)
localeCompare(a, b) ==
    IF a = <<>> /\ b = <<>> THEN 0
    ELSE IF a = <<>> THEN -1
    ELSE IF b = <<>> THEN 1
    ELSE IF Rank(a[1]) < Rank(b[1]) THEN -1
    ELSE IF Rank(a[1]) > Rank(b[1]) THEN 1
    ELSE localeCompare(Tail(a), Tail(b))

\* The comparator of the sort: modelA.localeCompare(modelB)
compareModel(point, a, b) ==
    localeCompare(toLowerCase(Chars[Insight(point, a)]),
                  toLowerCase(Chars[Insight(point, b)]))

\* A sort that puts a paper before the papers it compares equal to
RECURSIVE sortTiesReversed(_, _)
sortTiesReversed(ps, point) ==
    IF ps = <<>> THEN <<>>
    ELSE LET done == sortTiesReversed(SubSeq(ps, 1, Len(ps) - 1), point)
             x == ps[Len(ps)]
             k == Cardinality({i \in 1..Len(done) : compareModel(point, done[i], x) < 0})
         IN  SubSeq(done, 1, k) \o <<x>> \o SubSeq(done, k + 1, Len(done))

\* Array.prototype.sort with the comparator above. The sort is stable, and a stable
\* sort has one result: that of inserting each paper, in turn, after the papers
\* that do not compare greater.
RECURSIVE sort(_, _)
sort(ps, point) ==
    IF ps = <<>> THEN <<>>
    ELSE LET done == sort(SubSeq(ps, 1, Len(ps) - 1), point)
             x == ps[Len(ps)]
             k == Cardinality({i \in 1..Len(done) : compareModel(point, done[i], x) <= 0})
         IN  SubSeq(done, 1, k) \o <<x>> \o SubSeq(done, k + 1, Len(done))

\* tablePapers after the sort: the rows of the table
tablePapers(ps, result) ==
    IF modelCriteria(result) # 0
    THEN sort(filterPapers(ps, result), result[1][modelCriteria(result)])
    ELSE filterPapers(ps, result)

\* ------------------------------------------------------------- export
\* The character U+2022.
Bullet == "U+2022"

\* String.prototype.replace with a global pattern of literal characters: the
\* occurrences are found from the left and do not overlap.
RECURSIVE replace(_, _, _)
replace(cs, pat, rep) ==
    IF Len(cs) < Len(pat) THEN cs
    ELSE IF SubSeq(cs, 1, Len(pat)) = pat
         THEN rep \o replace(SubSeq(cs, Len(pat) + 1, Len(cs)), pat, rep)
         ELSE <<cs[1]>> \o replace(Tail(cs), pat, rep)

\* The same without the g flag: only the first occurrence is replaced
RECURSIVE replaceFirst(_, _, _)
replaceFirst(cs, pat, rep) ==
    IF Len(cs) < Len(pat) THEN cs
    ELSE IF SubSeq(cs, 1, Len(pat)) = pat
         THEN rep \o SubSeq(cs, Len(pat) + 1, Len(cs))
         ELSE <<cs[1]>> \o replaceFirst(Tail(cs), pat, rep)

\* `"${s.replace(/"/g, '""')}"`
csvQuote(cs) == <<"\"">> \o replace(cs, <<"\"">>, <<"\"", "\"">>) \o <<"\"">>

\* An insight whose first hyphen only is replaced
exportTextFirstHyphen(cs) ==
    replaceFirst(replace(cs, <<"*", "*">>, <<>>), <<"-">>, <<Bullet>>)

\* (...).replace(/\*\*/g, '').replace(/-/g, Bullet)
exportText(cs) == replace(replace(cs, <<"*", "*">>, <<>>), <<"-">>, <<Bullet>>)

\* The field of an insight in a row of the export
insightField(cs) == csvQuote(exportText(cs))

\* Array.prototype.join
RECURSIVE join(_, _)
join(ss, sep) ==
    IF ss = <<>> THEN <<>>
    ELSE IF Len(ss) = 1 THEN ss[1]
    ELSE ss[1] \o sep \o join(Tail(ss), sep)

\* title and fileName of the n-th paper (what analyzePaper answered and the name
\* of the file): any texts; the odd papers have a title with quotes.
title(p) == IF p % 2 = 1 THEN <<"A", " ", "\"", "B", "\"">> ELSE <<"T">>
fileName(p) == <<"f", ".", "p", "d", "f">>

\* papers.filter(p => paperIdsInResult.includes(p.id)) of downloadCSV
relevantPapers(ps, result) ==
    LET paperIdsInResult == IF Len(result[1]) > 0
                            THEN DOMAIN result[1][1].paperInsights ELSE {}
    IN  SelectSeq(ps, LAMBDA p : p \in paperIdsInResult)

\* headers of downloadCSV
headers(result) ==
    << <<"P", "a", "p", "e", "r", " ", "T", "i", "t", "l", "e">>,
       <<"A", "u", "t", "h", "o", "r", "s", "/", "Y", "e", "a", "r", " ", "(", "R", "e", "f", ")">> >>
    \o [i \in 1..Len(result[1]) |-> Chars[result[1][i].criteria]]

\* rowData of one paper
rowData(p, result) ==
    <<csvQuote(title(p)), csvQuote(fileName(p))>>
    \o [i \in 1..Len(result[1]) |-> insightField(Chars[Insight(result[1][i], p)])]

\* What downloadCSV makes of a matrix: the header fields and, per paper of
\* relevantPapers, the fields of its row. csvContent is the lines joined by "\n",
\* each line its fields joined by ",".
csv(ps, result) ==
    [headers |-> headers(result),
     rows |-> [k \in 1..Len(relevantPapers(ps, result)) |->
                 [paper |-> relevantPapers(ps, result)[k],
                  rowData |-> rowData(relevantPapers(ps, result)[k], result)]]]

csvLines(c) ==
    <<join(c.headers, <<",">>)>>
    \o [k \in 1..Len(c.rows) |-> join(c.rows[k].rowData, <<",">>)]

\* ------------------------------------------------------------- renderContent
Whitespace == {" ", "\n"}

\* String.prototype.trim
RECURSIVE trimStart(_)
trimStart(cs) ==
    IF cs # <<>> /\ cs[1] \in Whitespace THEN trimStart(Tail(cs)) ELSE cs

RECURSIVE trimEnd(_)
trimEnd(cs) ==
    IF cs # <<>> /\ cs[Len(cs)] \in Whitespace
    THEN trimEnd(SubSeq(cs, 1, Len(cs) - 1)) ELSE cs

trim(cs) == trimEnd(trimStart(cs))

startsWith(cs, pre) == Len(cs) >= Len(pre) /\ SubSeq(cs, 1, Len(pre)) = pre
endsWith(cs, suf) ==
    Len(cs) >= Len(suf) /\ SubSeq(cs, Len(cs) - Len(suf) + 1, Len(cs)) = suf

\* value.split('\n')
RECURSIVE split(_, _)
split(cs, sep) ==
    IF \E i \in 1..Len(cs) : cs[i] = sep
    THEN LET i == CHOOSE i \in 1..Len(cs) : cs[i] = sep /\ \A j \in 1..(i - 1) : cs[j] # sep
         IN  <<SubSeq(cs, 1, i - 1)>> \o split(SubSeq(cs, i + 1, Len(cs)), sep)
    ELSE <<cs>>

\* The matches of /\*\*.*?\*\*/ that start at i: "**", as few characters as
\* possible, "**"; the match ends at the first "**" that begins at i + 2 or later.
Closings(cs, i) == {j \in (i + 2)..(Len(cs) - 1) : cs[j] = "*" /\ cs[j + 1] = "*"}
MatchesAt(cs, i) ==
    i + 1 <= Len(cs) /\ cs[i] = "*" /\ cs[i + 1] = "*" /\ Closings(cs, i) # {}

\* cleanLine.split(/(\*\*.*?\*\*)/g): the text before the leftmost match, the match,
\* and the split of what follows it
RECURSIVE splitBold(_)
splitBold(cs) ==
    IF \E i \in 1..Len(cs) : MatchesAt(cs, i)
    THEN LET i == CHOOSE i \in 1..Len(cs) :
                      MatchesAt(cs, i) /\ \A k \in 1..(i - 1) : ~MatchesAt(cs, k)
             j == CHOOSE j \in Closings(cs, i) : \A k \in Closings(cs, i) : j <= k
         IN  <<SubSeq(cs, 1, i - 1), SubSeq(cs, i, j + 1)>>
             \o splitBold(SubSeq(cs, j + 2, Len(cs)))
    ELSE <<cs>>

\* part.startsWith('**') && part.endsWith('**') ? <strong>{part.slice(2, -2)}</strong>
\*                                              : <span>{part}</span>
renderPart(part) ==
    IF startsWith(part, <<"*", "*">>) /\ endsWith(part, <<"*", "*">>)
    THEN [strong |-> TRUE, text |-> SubSeq(part, 3, Len(part) - 2)]
    ELSE [strong |-> FALSE, text |-> part]

\* One line of the cell: the bullet test, cleanLine and the rendered parts
renderLine(line) ==
    LET isBullet == \/ startsWith(trim(line), <<"-", " ">>)
                    \/ startsWith(trim(line), <<"*", " ">>)
        cleanLine == IF isBullet THEN SubSeq(trim(line), 3, Len(trim(line))) ELSE line
    IN  [isBullet |-> isBullet, cleanLine |-> cleanLine,
         parts |-> [k \in 1..Len(splitBold(cleanLine)) |-> renderPart(splitBold(cleanLine)[k])]]

\* renderContent of a cell whose value is cs: <<>> for the placeholder, else the
\* lines that are not blank
renderContent(cs) ==
    IF cs = <<>> THEN <<>>
    ELSE LET lines == SelectSeq(split(cs, "\n"), LAMBDA line : trim(line) # <<>>)
         IN  [k \in 1..Len(lines) |-> renderLine(lines[k])]

\* ------------------------------------------------------------- comparePapers
\* What JSON.parse(response.text) can be: the answer is not validated, so it is any
\* matrix. These are the answers drawn; an answer names only papers that exist.
\* (The papers sent, papers.filter(p => selectedIds.has(p.id)), decide nothing else
\* and are not kept in the request.)
RespA == << Point("Study Design", (2 :> "abc")),
            Point("Model/Architecture/Tools Used", (1 :> "B" @@ 2 :> "a")),
            Point("Key Findings", << >>) >>
RespB == << Point("Network architecture", (1 :> "abc" @@ 2 :> "B")),
            Point("MODEL", (2 :> "abc")) >>
RespC == << >>
RespD == << Point("Key Findings", (1 :> "abc")),
            Point("Key Findings", (1 :> "B" @@ 2 :> "abc")) >>

RespE == << Point("MODEL", (1 :> "B" @@ 2 :> "b")) >>

Responses == {RespA, RespB, RespC, RespD, RespE}

IdsOf(m) == UNION {DOMAIN m[i].paperInsights : i \in 1..Len(m)}
SeqToSet(ps) == {ps[i] : i \in 1..Len(ps)}

ResponsesTo(ps) == {m \in Responses : IdsOf(m) \subseteq SeqToSet(ps)}

\* ------------------------------------------------------------- table
\* The table body: one EditableCell per row of tablePapers and per point, keyed by
\* paper.id and idx. It is rendered only when comparisonResult is not null.
Cells(ps, result) ==
    IF result = <<>> THEN {}
    ELSE {<<p, i>> : p \in SeqToSet(filterPapers(ps, result)), i \in 1..Len(result[1])}

\* const content = point.paperInsights?.[paper.id] || ""
Content(result, cell) == Insight(result[1][cell[2]], cell[1])

\* The text the cell shows: its value state, which useEffect keeps equal to
\* initialValue in every cell that is not being edited.
CellValue(cell) ==
    IF cell = editing THEN value ELSE Content(comparisonResult, cell)

\* useEffect(() => setValue(initialValue), [initialValue]) of the cell being edited,
\* after a render with new props; a cell that is no longer rendered loses its state.
EffectEditing(ps, result) ==
    IF editing # NoCell /\ editing \notin Cells(ps, result) THEN NoCell ELSE editing

EffectValue(ps, result) ==
    IF editing = NoCell THEN value
    ELSE IF editing \notin Cells(ps, result) THEN Null
    ELSE IF Content(result, editing) # Content(comparisonResult, editing)
         THEN Content(result, editing)
         ELSE value

\* setIsEditing as ComparisonView passes it: (val) => { }, with isEditing={false}
setIsEditingStub(cell, val) == editing

\* setIsEditing of a host that keeps the flag it passes back as isEditing
setIsEditingHost(cell, val) == IF val THEN cell ELSE NoCell

setIsEditing(cell, val) ==
    IF hostControlled THEN setIsEditingHost(cell, val) ELSE setIsEditingStub(cell, val)

\* disabled without the isComparing test
CompareDisabledNoFlag == Cardinality(selectedIds) < 2

\* disabled={selectedIds.size < 2 || isComparing}
CompareDisabled == Cardinality(selectedIds) < 2 \/ isComparing

\* The instance that issued a request is still the one mounted.
Alive(req) == req.inst = inst

\* Instances are told apart only by the requests they left in flight, so their
\* numbers are kept in the order in which those requests were issued: the k-th
\* distinct instance among the requests in flight is instance k, and a mounted
\* instance with no request in flight has the next number.
FirstOf(q, k) == CHOOSE j \in 1..k : q[j].inst = q[k].inst /\ \A i \in 1..(j - 1) : q[i].inst # q[k].inst
Firsts(q, k) == {j \in 1..k : FirstOf(q, j) = j}
Renumber(q) ==
    [k \in 1..Len(q) |-> [q[k] EXCEPT !.inst = Cardinality(Firsts(q, FirstOf(q, k)))]]
RenumberInst(q, cur) ==
    IF cur = 0 THEN 0
    ELSE IF \E k \in 1..Len(q) : q[k].inst = cur
         THEN Renumber(q)[CHOOSE k \in 1..Len(q) : q[k].inst = cur].inst
         ELSE Cardinality(Firsts(q, Len(q))) + 1

NewInstance == Cardinality(Firsts(requests, Len(requests))) + 1

RemoveAt(q, k) == SubSeq(q, 1, k - 1) \o SubSeq(q, k + 1, Len(q))

\* The requests issued before the k-th, which has resolved, are stale from now on
\* (a history kept only where the order of issue is recorded).
MarkStale(q, k) ==
    [j \in 1..Len(q) |-> IF ordered /\ j < k THEN [q[j] EXCEPT !.stale = TRUE] ELSE q[j]]

\* ------------------------------------------------------------- Init
InitApp ==
    /\ view = "ANALYZE"
    /\ papers = <<>>
    /\ comparisonResult = <<>>
    /\ inst = 0
    /\ selectedIds = {}
    /\ isComparing = FALSE
    /\ error = Null
    /\ requests = <<>>
    /\ editing = NoCell
    /\ value = Null
    /\ edits = 0
    /\ last = [op |-> "init"]

Init == InitApp /\ hostControlled = FALSE /\ ordered = FALSE /\ sample = <<>>

InitOrdered == InitApp /\ hostControlled = FALSE /\ ordered = TRUE /\ sample = <<>>

InitCell == InitApp /\ hostControlled = TRUE /\ ordered = FALSE /\ sample = <<>>

\* ------------------------------------------------------------- App
\* onClick={() => setView(v)}; leaving COMPARE unmounts the ComparisonView and
\* entering it mounts a new instance with fresh state.
SetView(v) ==
    /\ v # view
    /\ editing = NoCell
    /\ view' = v
    /\ inst' = IF v = "COMPARE" THEN NewInstance ELSE 0
    /\ IF v = "COMPARE" \/ view = "COMPARE"
       THEN selectedIds' = {} /\ isComparing' = FALSE /\ error' = Null
       ELSE UNCHANGED <<selectedIds, isComparing, error>>
    /\ last' = [op |-> "other"]
    /\ UNCHANGED <<sample, ordered, papers, comparisonResult, requests, hostControlled,
                   editing, value, edits>>

\* setPapers(prev => [newPaper, ...prev])
handleAnalysisComplete ==
    /\ Len(papers) < MaxPapers
    /\ papers' = <<Len(papers) + 1>> \o papers
    /\ editing' = EffectEditing(papers', comparisonResult)
    /\ value' = EffectValue(papers', comparisonResult)
    /\ last' = [op |-> "other"]
    /\ UNCHANGED <<sample, ordered, view, comparisonResult, inst, selectedIds, isComparing, error,
                   requests, hostControlled, edits>>

\* ------------------------------------------------------------- ComparisonView
togglePaper(id) ==
    /\ view = "COMPARE"
    /\ editing = NoCell
    /\ id \in SeqToSet(papers)
    /\ selectedIds' = IF id \in selectedIds THEN selectedIds \ {id}
                                           ELSE selectedIds \cup {id}
    /\ last' = [op |-> "other"]
    /\ UNCHANGED <<sample, ordered, view, papers, comparisonResult, inst, isComparing, error,
                   requests, hostControlled, editing, value, edits>>

\* A click on the compare button, up to the await.
handleCompare ==
    /\ view = "COMPARE"
    /\ editing = NoCell
    /\ ~CompareDisabled
    /\ Len(requests) < MaxInFlight
    /\ IF Cardinality(selectedIds) < 2
       THEN UNCHANGED <<isComparing, error, requests>>
       ELSE /\ isComparing' = TRUE
            /\ error' = Null
            /\ requests' = Append(requests, [inst |-> inst, edited |-> FALSE, stale |-> FALSE])
    /\ last' = [op |-> "other"]
    /\ UNCHANGED <<sample, ordered, view, papers, comparisonResult, inst, selectedIds,
                   hostControlled, editing, value, edits>>

\* A try block that keeps a matrix edited while the request was in flight
TryResultKeepEdited(k, results) ==
    IF requests[k].edited THEN comparisonResult ELSE <<results>>

\* The try block after the await: setComparisonResult(results)
TryResult(k, results) == <<results>>

\* A catch block that also clears the matrix
CatchResultCleared == <<>>

\* The catch block: it sets the error and leaves comparisonResult alone
CatchResult == comparisonResult

\* comparePapers resolved: setComparisonResult(results), then the finally block.
\* The state setters of an unmounted instance do nothing.
CompareResolved(k, results) ==
    /\ k \in 1..Len(requests)
    /\ results \in ResponsesTo(papers)
    /\ comparisonResult' = TryResult(k, results)
    /\ isComparing' = IF Alive(requests[k]) THEN FALSE ELSE isComparing
    /\ requests' = Renumber(RemoveAt(MarkStale(requests, k), k))
    /\ inst' = RenumberInst(RemoveAt(requests, k), inst)
    /\ editing' = EffectEditing(papers, comparisonResult')
    /\ value' = EffectValue(papers, comparisonResult')
    /\ last' = [op |-> "resolved", results |-> results,
                overwrote |-> requests[k].edited, stale |-> requests[k].stale]
    /\ UNCHANGED <<sample, ordered, view, papers, selectedIds, error, hostControlled, edits>>

\* A rejection handled by the catch block alone, without the finally block
CompareRejectedNoFinally(k, message) ==
    /\ k \in 1..Len(requests)
    /\ error' = IF Alive(requests[k])
                THEN (IF message = "" THEN DefaultError ELSE message)
                ELSE error
    /\ requests' = Renumber(RemoveAt(requests, k))
    /\ inst' = RenumberInst(RemoveAt(requests, k), inst)
    /\ comparisonResult' = CatchResult
    /\ last' = [op |-> "rejected"]
    /\ UNCHANGED <<sample, ordered, view, papers, selectedIds, isComparing, hostControlled,
                   editing, value, edits>>

\* comparePapers rejected: the catch block, then the finally block.
CompareRejected(k, message) ==
    /\ k \in 1..Len(requests)
    /\ error' = IF Alive(requests[k])
                THEN (IF message = "" THEN DefaultError ELSE message)
                ELSE error
    /\ isComparing' = IF Alive(requests[k]) THEN FALSE ELSE isComparing
    /\ requests' = Renumber(RemoveAt(requests, k))
    /\ inst' = RenumberInst(RemoveAt(requests, k), inst)
    /\ comparisonResult' = CatchResult
    /\ last' = [op |-> "rejected"]
    /\ UNCHANGED <<sample, ordered, view, papers, selectedIds, hostControlled, editing, value, edits>>

\* A click on "Download CSV", rendered when there are papers and comparisonResult is
\* not null: nothing without a selection, else the link with the file is clicked.
downloadCSV ==
    /\ view = "COMPARE"
    /\ editing = NoCell
    /\ Len(papers) > 0
    /\ comparisonResult # <<>>
    /\ last' = [op |-> "downloadCSV",
                csv |-> IF comparisonResult = <<>> \/ selectedIds = {}
                        THEN <<>>
                        ELSE <<csv(papers, comparisonResult)>>]
    /\ UNCHANGED <<sample, ordered, view, papers, comparisonResult, inst, selectedIds, isComparing,
                   error, requests, hostControlled, editing, value, edits>>

\* ------------------------------------------------------------- EditableCell
\* onClick={() => setIsEditing(true)} of a cell in viewing mode
handleClick(cell) ==
    /\ view = "COMPARE"
    /\ editing = NoCell
    /\ cell \in Cells(papers, comparisonResult)
    /\ edits < MaxEdits
    /\ editing' = setIsEditing(cell, TRUE)
    /\ value' = IF editing' = NoCell THEN Null ELSE Content(comparisonResult, cell)
    /\ last' = [op |-> "other"]
    /\ UNCHANGED <<sample, ordered, view, papers, comparisonResult, inst, selectedIds, isComparing,
                   error, requests, hostControlled, edits>>

\* onSave={(newVal) => updateCell(paper.id, point.criteria, newVal)}
onSave(cell, newVal) ==
    updateCell(comparisonResult, cell[1], comparisonResult[1][cell[2]].criteria, newVal)

\* An onChange that also saves the text
onChangeSaving(text) ==
    /\ editing # NoCell
    /\ value' = text
    /\ comparisonResult' = onSave(editing, text)
    /\ last' = [op |-> "other"]
    /\ UNCHANGED <<sample, ordered, view, papers, inst, selectedIds, isComparing,
                   error, requests, hostControlled, editing, edits>>

\* onChange of the textarea: setValue(e.target.value)
onChange(text) ==
    /\ editing # NoCell
    /\ value' = text
    /\ last' = [op |-> "other"]
    /\ UNCHANGED <<sample, ordered, view, papers, comparisonResult, inst, selectedIds, isComparing,
                   error, requests, hostControlled, editing, edits>>

\* A handleBlur that saves only a draft that differs from initialValue
handleBlurIfChanged ==
    /\ editing # NoCell
    /\ editing' = setIsEditing(editing, FALSE)
    /\ comparisonResult' = IF value = Content(comparisonResult, editing)
                           THEN comparisonResult ELSE onSave(editing, value)
    /\ value' = IF editing' = NoCell THEN Null ELSE value
    /\ edits' = edits + 1
    /\ last' = [op |-> "handleBlur",
                calls |-> IF value = Content(comparisonResult, editing) THEN <<>>
                          ELSE << <<editing[1], comparisonResult[1][editing[2]].criteria,
                                    value>> >>]
    /\ requests' = [k \in 1..Len(requests) |-> [requests[k] EXCEPT !.edited = TRUE]]
    /\ UNCHANGED <<sample, ordered, view, papers, inst, selectedIds, isComparing, error, hostControlled>>

\* onBlur of the textarea: setIsEditing(false); onSave(value)
handleBlur ==
    /\ editing # NoCell
    /\ editing' = setIsEditing(editing, FALSE)
    /\ comparisonResult' = onSave(editing, value)
    /\ value' = IF editing' = NoCell THEN Null ELSE value
    /\ edits' = edits + 1
    /\ last' = [op |-> "handleBlur",
                calls |-> << <<editing[1], comparisonResult[1][editing[2]].criteria,
                               value>> >>]
    /\ requests' = [k \in 1..Len(requests) |-> [requests[k] EXCEPT !.edited = TRUE]]
    /\ UNCHANGED <<sample, ordered, view, papers, inst, selectedIds, isComparing, error, hostControlled>>

\* A handleKeyDown whose Escape saves the draft as a focus loss does
handleKeyDownSaving(key) ==
    /\ editing # NoCell
    /\ IF key = "Escape"
       THEN /\ editing' = setIsEditing(editing, FALSE)
            /\ value' = IF editing' = NoCell THEN Null
                        ELSE Content(comparisonResult, editing)
            /\ comparisonResult' = onSave(editing, value)
       ELSE UNCHANGED <<editing, value, comparisonResult>>
    /\ last' = IF key = "Escape"
                THEN [op |-> "handleKeyDown", cell |-> editing, draft |-> value]
                ELSE [op |-> "other"]
    /\ UNCHANGED <<sample, ordered, view, papers, inst, selectedIds, isComparing,
                   error, requests, hostControlled, edits>>

\* onKeyDown of the textarea: Escape reverts, every other key does nothing here
handleKeyDown(key) ==
    /\ editing # NoCell
    /\ IF key = "Escape"
       THEN /\ editing' = setIsEditing(editing, FALSE)
            /\ value' = IF editing' = NoCell THEN Null
                        ELSE Content(comparisonResult, editing)
       ELSE UNCHANGED <<editing, value>>
    /\ last' = IF key = "Escape"
                THEN [op |-> "handleKeyDown", cell |-> editing, draft |-> value]
                ELSE [op |-> "other"]
    /\ UNCHANGED <<sample, ordered, view, papers, comparisonResult, inst, selectedIds, isComparing,
                   error, requests, hostControlled, edits>>

\* ------------------------------------------------------------- specifications
Next ==
    \/ \E v \in ViewState : SetView(v)
    \/ handleAnalysisComplete
    \/ \E id \in 1..MaxPapers : togglePaper(id)
    \/ handleCompare
    \/ \E k \in 1..MaxInFlight : \E results \in Responses : CompareResolved(k, results)
    \/ \E k \in 1..MaxInFlight : \E message \in ErrMessages : CompareRejected(k, message)
    \/ \E cell \in Cells(papers, comparisonResult) : handleClick(cell)
    \/ downloadCSV

\* The program as written: ComparisonView passes isEditing={false} to every cell.
Spec == Init /\ [][Next]_vars

\* The same with the history of which requests a later request has overtaken.
OrderSpec == InitOrdered /\ [][Next]_vars

NextCell ==
    \/ Next
    \/ \E text \in Texts : onChange(text)
    \/ handleBlur
    \/ \E key \in {"Escape", "Enter"} : handleKeyDown(key)

\* EditableCell under a host that honours setIsEditing.
CellSpec == InitCell /\ [][NextCell]_vars

\* ------------------------------------------------------------- text functions
\* The texts given to renderContent and to the export: every text of at most
\* MaxSample of these characters, and the text of the export's example.
Alphabet == {"*", "-", "\"", " ", "\n", "a"}
Example == Chars["He said \"hi\" - ok"]
Samples == UNION {[1..n -> Alphabet] : n \in 0..MaxSample} \cup {Example}

InitText == InitApp /\ hostControlled = FALSE /\ ordered = FALSE /\ sample \in Samples

\* A cell in viewing mode whose value is the sample is rendered.
RenderSample ==
    /\ last' = [op |-> "renderContent", lines |-> renderContent(sample)]
    /\ UNCHANGED <<sample, ordered, view, papers, comparisonResult, inst, selectedIds, isComparing,
                   error, requests, hostControlled, editing, value, edits>>

\* An insight whose text is the sample is exported.
ExportSample ==
    /\ last' = [op |-> "insightField", field |-> insightField(sample)]
    /\ UNCHANGED <<sample, ordered, view, papers, comparisonResult, inst, selectedIds, isComparing,
                   error, requests, hostControlled, editing, value, edits>>

NextText == RenderSample \/ ExportSample

TextSpec == InitText /\ [][NextText]_vars

\* ------------------------------------------------------------- claims
\* The document ids, criteria names and texts the claims quantify over: those of
\* the papers and answers, and one of each that occurs nowhere.
AnyIds == 0..(MaxPapers + 1)
AnyNames == {"Study Design", "Model/Architecture/Tools Used", "Key Findings",
             "Network architecture", "MODEL", "Tools, \"used\"", "study design", ""}
AnyTexts == Texts \cup {"abc", "B"}

NamedBy(m, n) == {i \in 1..Len(m) : m[i].criteria = n}

C3_OneInFlightPerInstance ==
    \A i \in 0..(MaxInFlight + 1) :
        Cardinality({k \in 1..Len(requests) : requests[k].inst = i}) <= 1

\* The mounted instance has a request in flight, two papers are selected, and a
\* request of an earlier instance is in flight as well.
C3_Witness ==
    /\ Len(requests) = 2
    /\ \E k \in 1..Len(requests) : requests[k].inst = inst
    /\ Cardinality(selectedIds) >= 2
    /\ isComparing

C8_ActiveSetFromFirstDimension ==
    LET ids == activeResultIds(comparisonResult)
    IN  /\ comparisonResult = <<>> => ids = {}
        /\ comparisonResult # <<>> =>
             LET m == comparisonResult[1]
             IN  /\ Len(m) = 0 => ids = {}
                 /\ Len(m) > 0 => ids = DOMAIN m[1].paperInsights
                 /\ \A j \in 2..Len(m), d \in AnyIds, t \in AnyTexts :
                       activeResultIds(
                           << [m EXCEPT ![j].paperInsights = SpreadInsight(@, d, t)] >>)
                         = ids

\* The matrix is RespA: its second dimension names paper 1, its first does not.
C8_Witness ==
    /\ comparisonResult = <<RespA>>
    /\ activeResultIds(comparisonResult) = {2}
    /\ 1 \in DOMAIN comparisonResult[1][2].paperInsights

Position(ps, p) == CHOOSE k \in 1..Len(ps) : ps[k] = p

\* C9: the rows before the sort are the papers whose id is in the active set, each
\* once and in the order of the paper list; a paper named only by a later
\* dimension is not among them.
C9_TransposerIsSubsequence ==
    LET rows == filterPapers(papers, comparisonResult)
        ids == IF comparisonResult # <<>> /\ Len(comparisonResult[1]) > 0
               THEN DOMAIN comparisonResult[1][1].paperInsights ELSE {}
    IN  /\ SeqToSet(rows) = SeqToSet(papers) \cap ids
        /\ \A i, j \in 1..Len(rows) :
              i < j => Position(papers, rows[i]) < Position(papers, rows[j])
        /\ \A p \in SeqToSet(papers) :
              (comparisonResult # <<>> /\ p \notin ids) => p \notin SeqToSet(rows)

\* Both papers are in the first dimension of RespB and the rows keep the order of
\* the list, newest first.
C9_Witness ==
    /\ comparisonResult = <<RespB>>
    /\ papers = <<2, 1>>
    /\ filterPapers(papers, comparisonResult) = <<2, 1>>

\* The names of the answers that contain "model" or "architecture" in any case.
GroupingNames == {"Model/Architecture/Tools Used", "Network architecture", "MODEL"}

\* C10: the grouping dimension is the first one whose name contains "model" or
\* "architecture" in any case, whichever of the two; of "Study Design",
\* "Model/Architecture/Tools Used", "Key Findings" it is the second.
C10_GroupingDimension ==
    comparisonResult # <<>> =>
        LET m == comparisonResult[1]
            g == modelCriteria(comparisonResult)
        IN  /\ g \in 0..Len(m)
            /\ g = 0 => \A i \in 1..Len(m) : m[i].criteria \notin GroupingNames
            /\ g > 0 => /\ m[g].criteria \in GroupingNames
                        /\ \A j \in 1..(g - 1) : m[j].criteria \notin GroupingNames
            /\ [i \in 1..Len(m) |-> m[i].criteria]
                   = <<"Study Design", "Model/Architecture/Tools Used", "Key Findings">>
                 => g = 2

\* The matrix has the three dimensions of the example and the second is found.
C10_Witness ==
    /\ comparisonResult # <<>>
    /\ [i \in 1..Len(comparisonResult[1]) |-> comparisonResult[1][i].criteria]
           = <<"Study Design", "Model/Architecture/Tools Used", "Key Findings">>
    /\ modelCriteria(comparisonResult) = 2

\* The lower-cased insights, and the place of each in the order of the sort.
FoldedKey == [t \in AnyTexts \cup {"a", "b"} |-> IF t = "B" THEN "b" ELSE t]
KeyOrder == <<"", "a", "abc", "abcd", "b">>
KeyPlace(t) == CHOOSE k \in 1..Len(KeyOrder) : KeyOrder[k] = FoldedKey[t]

\* C11: when a grouping dimension is found, the rows of the table are the
\* Transposer's rows, each once, in non-decreasing order of the lower-cased insight
\* under that dimension ("" when absent), and rows with equal keys are in the
\* Transposer's order.
C11_SortStable ==
    modelCriteria(comparisonResult) # 0 =>
        LET point == comparisonResult[1][modelCriteria(comparisonResult)]
            before == filterPapers(papers, comparisonResult)
            rows == tablePapers(papers, comparisonResult)
            Key(p) == KeyPlace(Insight(point, p))
        IN  /\ Len(rows) = Len(before)
            /\ SeqToSet(rows) = SeqToSet(before)
            /\ \A i, j \in 1..Len(rows) :
                  i < j => /\ Key(rows[i]) <= Key(rows[j])
                           /\ Key(rows[i]) = Key(rows[j])
                                => Position(before, rows[i]) < Position(before, rows[j])

\* Two rows whose insights under the grouping dimension, "b" and "B", differ in
\* case only: they stay in the order of the paper list.
C11_Witness ==
    /\ comparisonResult = <<RespE>>
    /\ papers = <<2, 1>>
    /\ Insight(RespE[1], 2) = "b" /\ Insight(RespE[1], 1) = "B"
    /\ tablePapers(papers, comparisonResult) = <<2, 1>>

\* C12: an export over an empty table (no row after filter and sort) produces
\* nothing, whatever the matrix and the selection.
C12_ExportNothingOnEmptyTable ==
    (last.op = "downloadCSV" /\ tablePapers(papers, comparisonResult) = <<>>)
        => last.csv = <<>>

\* C13: the export has one row per row of the table, in the order of the table:
\* the papers of the exported rows are the rows of the table.
C13_ExportRowsAreTableRows ==
    (last.op = "downloadCSV" /\ last.csv # <<>>) =>
        [k \in 1..Len(last.csv[1].rows) |-> last.csv[1].rows[k].paper]
            = tablePapers(papers, comparisonResult)

\* A text between quotes, each of its quotes written twice.
RECURSIVE Doubled(_)
Doubled(cs) ==
    IF cs = <<>> THEN <<>>
    ELSE (IF cs[1] = "\"" THEN <<"\"", "\"">> ELSE <<cs[1]>>) \o Doubled(Tail(cs))

Quoted(cs) == <<"\"">> \o Doubled(cs) \o <<"\"">>

\* The text of which a field is the quoted form, if it is one: pairs of quotes
\* read as one quote.
RECURSIVE Undoubled(_)
Undoubled(cs) ==
    IF Len(cs) >= 2 /\ cs[1] = "\"" /\ cs[2] = "\""
    THEN <<"\"">> \o Undoubled(SubSeq(cs, 3, Len(cs)))
    ELSE IF cs = <<>> THEN <<>>
    ELSE <<cs[1]>> \o Undoubled(Tail(cs))

IsEscapedField(f) ==
    /\ Len(f) >= 2 /\ f[1] = "\"" /\ f[Len(f)] = "\""
    /\ Quoted(Undoubled(SubSeq(f, 2, Len(f) - 1))) = f

\* C14: every field of the export, of the header as of the rows, is wrapped in
\* quotes with the quotes inside doubled, and the header is "Paper Title",
\* "Authors/Year (Ref)" and the names of the dimensions in matrix order.
C14_EveryFieldEscaped ==
    (last.op = "downloadCSV" /\ last.csv # <<>>) =>
        LET c == last.csv[1]
            m == comparisonResult[1]
        IN  /\ Len(c.headers) = 2 + Len(m)
            /\ c.headers[1] = Quoted(<<"P", "a", "p", "e", "r", " ", "T", "i", "t", "l", "e">>)
            /\ c.headers[2] = Quoted(<<"A", "u", "t", "h", "o", "r", "s", "/", "Y", "e", "a", "r", " ", "(", "R", "e", "f", ")">>)
            /\ \A i \in 1..Len(m) : c.headers[2 + i] = Quoted(Chars[m[i].criteria])
            /\ \A k \in 1..Len(c.rows) :
                  /\ Len(c.rows[k].rowData) = 2 + Len(m)
                  /\ \A i \in 1..Len(c.rows[k].rowData) : IsEscapedField(c.rows[k].rowData[i])

\* The stars of a text that belong to a "**": in a run of n stars, the first
\* n - (n % 2) of them.
StarRun(t, i) == {j \in 1..Len(t) : \A k \in (IF j <= i THEN j..i ELSE i..j) : t[k] = "*"}
InPair(t, i) ==
    /\ t[i] = "*"
    /\ LET first == CHOOSE j \in StarRun(t, i) : \A k \in StarRun(t, i) : j <= k
           n == Cardinality(StarRun(t, i))
       IN  i - first < n - (n % 2)

\* A text without the stars of its pairs, every hyphen of it a bullet character.
Cleaned(t) ==
    LET kept == {i \in 1..Len(t) : ~InPair(t, i)}
        At(n) == CHOOSE i \in kept : Cardinality({j \in kept : j <= i}) = n
    IN  [n \in 1..Cardinality(kept) |-> IF t[At(n)] = "-" THEN Bullet ELSE t[At(n)]]

\* C15: the field of an insight is its text with every "**" removed and every "-"
\* replaced by the bullet character, then quoted with its quotes doubled; the
\* text He said "hi" - ok gives the field "He said ""hi"" (bullet) ok".
C15_InsightField ==
    last.op = "insightField" =>
        /\ last.field = Quoted(Cleaned(sample))
        /\ sample = Example =>
             last.field = <<"\"", "H", "e", " ", "s", "a", "i", "d", " ", "\"", "\"", "h", "i",
                            "\"", "\"", " ", Bullet, " ", "o", "k", "\"">>

\* A text with a "**", a hyphen and a quote has been exported.
C15_Witness ==
    /\ last.op = "insightField"
    /\ sample = <<"*", "*", "-", "\"">>
    /\ last.field = <<"\"", Bullet, "\"", "\"", "\"">>

\* What a line shows, character by character, when exactly the texts between a
\* "**" and the next "**" after it are emphasized, pairs taken from the left, and
\* every other character, a "**" without partner too, is shown as it is.
RECURSIVE Shown(_)
Shown(cs) ==
    IF cs = <<>> THEN <<>>
    ELSE IF MatchesAt(cs, 1)
    THEN LET j == CHOOSE j \in Closings(cs, 1) : \A k \in Closings(cs, 1) : j <= k
         IN  [k \in 1..(j - 3) |-> [char |-> cs[k + 2], strong |-> TRUE]]
             \o Shown(SubSeq(cs, j + 2, Len(cs)))
    ELSE <<[char |-> cs[1], strong |-> FALSE]>> \o Shown(Tail(cs))

\* What the rendered parts show, character by character.
RECURSIVE ShownByParts(_)
ShownByParts(parts) ==
    IF parts = <<>> THEN <<>>
    ELSE [k \in 1..Len(parts[1].text) |->
             [char |-> parts[1].text[k], strong |-> parts[1].strong]]
         \o ShownByParts(Tail(parts))

\* C18: in every rendered line only the text between paired "**" is emphasized,
\* and a "**" without partner is shown as the characters "**".
C18_UnmatchedStarsLiteral ==
    last.op = "renderContent" =>
        \A k \in 1..Len(last.lines) :
            ShownByParts(last.lines[k].parts) = Shown(last.lines[k].cleanLine)

\* C16: updateCell without a matrix, or with a name that no dimension has exactly,
\* leaves the matrix as it is, whatever the document and the text.
C16_UpdateMissIsNoOp ==
    \A d \in AnyIds, n \in AnyNames, t \in AnyTexts :
        (comparisonResult = <<>> \/ NamedBy(comparisonResult[1], n) = {})
            => updateCell(comparisonResult, d, n, t) = comparisonResult

\* The matrix has a dimension "Study Design" and none named "study design" or
\* "MODEL": an update under either name changes nothing.
C16_Witness ==
    /\ comparisonResult = <<RespA>>
    /\ NamedBy(RespA, "Study Design") # {}
    /\ NamedBy(RespA, "study design") = {} /\ NamedBy(RespA, "MODEL") = {}
    /\ updateCell(comparisonResult, 2, "study design", "abcd") = comparisonResult

Names(result) ==
    IF result = <<>> THEN <<>> ELSE [i \in 1..Len(result[1]) |-> result[1][i].criteria]

C19_ClickStartsEditing ==
    [][\A cell \in Cells(papers, comparisonResult) : handleClick(cell) => editing' = cell]_vars

\* C20: the answer to a request never replaces the matrix once a request issued
\* after it has resolved, so that with every request settled the matrix is the
\* answer to the last issued of the requests that resolved.
C20_OlderNeverOverwritesNewer ==
    [][(last'.op = "resolved" /\ last'.stale) => comparisonResult' = comparisonResult]_vars

C22_ExportWheneverRowsShown ==
    (/\ last.op = "downloadCSV"
     /\ comparisonResult # <<>>
     /\ tablePapers(papers, comparisonResult) # <<>>) => last.csv # <<>>

Pending == \E k \in 1..Len(requests) : Alive(requests[k])

\* C24: isComparing follows the request of the mounted instance: it is true
\* exactly while that request is in flight, so issuing sets it (and clears the
\* error) and the handling of its answer or of its failure resets it and leaves
\* the button enabled when two papers are selected (a request left behind by an
\* unmounted instance touches neither); error is set only by the handling of a
\* failure, holds one of its messages, and is cleared only by the next request
\* or with the instance.
C24_FlagFollowsRequest ==
    /\ [](/\ isComparing <=> Pending
          /\ error # Null => (~isComparing /\ error \in {DefaultError, RegionError}))
    /\ [][/\ Len(requests') > Len(requests) =>
                (~isComparing /\ isComparing' /\ error' = Null)
          /\ (Len(requests') < Len(requests) /\ Pending /\ ~Pending') =>
                (/\ ~isComparing'
                 /\ CompareDisabled' <=> (Cardinality(selectedIds') < 2))
          /\ error' # error =>
                \/ (last'.op = "rejected" /\ Pending /\ error = Null /\ error' # Null)
                \/ (error' = Null /\ Len(requests') > Len(requests))
                \/ (error' = Null /\ view' # view)]_vars

\* A failure of the request of the mounted instance has just been handled: the
\* message is shown, the flag is reset and the compare button is enabled again.
C24_Witness ==
    /\ last.op = "rejected"
    /\ error = RegionError
    /\ ~isComparing
    /\ ~Pending
    /\ Cardinality(selectedIds) = 2
    /\ ~CompareDisabled

====
